---- MODULE Spec2Model ----
(***************************************************************************)
(* A model of utils/model.py: the memory buffer (simpleBuffer), the agent  *)
(* state machine (baseAgent, RL) and the evaluation / simulation           *)
(* orchestrator (wrapper).                                                  *)
(*                                                                         *)
(* Numbers.  Beliefs and parameters are exact rationals <<n, d>> (d > 0,   *)
(* lowest terms).  A raw ("Gauss space") parameter is an integer k that    *)
(* stands for the real number k * ln 2, so that clip_exp(k ln 2) = 2^k and *)
(* sigmoid(k ln 2) = 1 / (1 + 2^-k) are exact; the raw values used stay    *)
(* far inside the clipping range of clip_exp.                              *)
(***************************************************************************)
EXTENDS Integers, Sequences, FiniteSets, TLC

VARIABLES
    subj,       \* SpecAgent: the agent object under test (or NoAgent)
    ret,        \* SpecAgent: how the last call on the agent or its buffer ended
    last_push,  \* SpecAgent: history, the argument of the most recent push
    data,       \* the dataset handed to fit / eval / sim
    use_hook,   \* wrapper.use_hook
    insights,   \* wrapper.insights: [keys: the dict's key order, log: key -> list]
    reg_dropped,\* history: the latest register_hooks discarded recorded entries
    calls,      \* one call frame of the wrapper per thread of control
    agent_voi,  \* SpecTable: wrapper.agent.voi, the agent class's declared quantities
    frames,     \* SpecTable: the caller's dataset, one DataFrame per block
    result      \* SpecTable: how the last call of loss_fn / eval / sim ended

vars == <<subj, ret, last_push, data, use_hook, insights, reg_dropped, calls,
          agent_voi, frames, result>>

TableVars == <<agent_voi, frames, result>>

----------------------------------------------------------------------------
(* Bounds of the model *)

\* learn is called while the belief's denominator is at most MaxDen.
MaxDen == 8

----------------------------------------------------------------------------
(* Exact rational arithmetic *)

RECURSIVE GCD(_, _)
GCD(a, b) == IF b = 0 THEN a ELSE GCD(b, a % b)

Abs(x) == IF x < 0 THEN -x ELSE x

Norm(n, d) ==
    LET g == GCD(Abs(n), Abs(d))
        s == IF d < 0 THEN -1 ELSE 1
    IN  <<(s * n) \div g, (s * d) \div g>>

Rat(n) == <<n, 1>>
RAdd(x, y) == Norm(x[1] * y[2] + y[1] * x[2], x[2] * y[2])
RSub(x, y) == Norm(x[1] * y[2] - y[1] * x[2], x[2] * y[2])
RMul(x, y) == Norm(x[1] * y[1], x[2] * y[2])
RNeg(x) == <<-x[1], x[2]>>
RPos(x) == x[1] > 0
RLeq(x, y) == x[1] * y[2] <= y[1] * x[2]

RECURSIVE Pow2(_)
Pow2(n) == IF n = 0 THEN 1 ELSE 2 * Pow2(n - 1)

----------------------------------------------------------------------------
(* Auxiliary functions *)

\* clip_exp(x) = exp(clip(x, -1e13, 50)) at x = k ln 2, |k| small: 2^k.
clip_exp(k) == IF k >= 0 THEN <<Pow2(k), 1>> ELSE <<1, Pow2(-k)>>

\* sigmoid(x) = 1 / (1 + clip_exp(-x)).
sigmoid(k) ==
    LET e == clip_exp(-k)
    IN  Norm(e[2], e[2] + e[1])

----------------------------------------------------------------------------
(* simpleBuffer *)

Keys == {"s", "t_type", "f_type"}

\* The values a key takes in the model: the outcome indicator s is 0 or 1,
\* the trial and feedback types are one code each.
Vals(k) == IF k = "s" THEN {0, 1} ELSE {0}

EmptyMem == [k \in {} |-> 0]

\* Every dict over Keys with values in Vals.
Dicts ==
    UNION {{d \in [K -> {0, 1}] : \A k \in K : d[k] \in Vals(k)} : K \in SUBSET Keys}

\* A plausible slip: push merges the new mapping into the old contents.
push_merge(m, m_dict) ==
    [k \in DOMAIN m \cup DOMAIN m_dict |->
        IF k \in DOMAIN m_dict THEN m_dict[k] ELSE m[k]]

\* self.m = {k: m_dict[k] for k in m_dict.keys()}
push(m, m_dict) == [k \in DOMAIN m_dict |-> m_dict[k]]

\* lst = [self.m[k] for k in args] raises KeyError at the first absent key.
sample_raises(m, args) == \E i \in 1..Len(args) : args[i] \notin DOMAIN m

\* The list lst of sample; the caller gets lst[0] when len(lst) == 1.
sample(m, args) == [i \in 1..Len(args) |-> m[args[i]]]

----------------------------------------------------------------------------
(* baseAgent and RL *)

\* The model's raw parameter values (k stands for k ln 2) and vectors.
RawVals == {-1, 0}
MaxParams == 3
ParamVecs == {[i \in 1..n |-> r] : n \in 0..MaxParams, r \in RawVals}

\* Modulation vectors handed to policy.
Mods == {<<1, 1>>, <<1, 2>>}

Unset == << >>

NoAgent ==
    [cls |-> "none", alpha |-> Unset, beta |-> Unset, p1 |-> Unset,
     p_S |-> Unset, o |-> "unset", pi |-> Unset, mem |-> EmptyMem]

\* RL.p_name = ['alpha', 'beta'];  n_params = len(p_name).
p_name == <<"alpha", "beta">>

\* RL.p_trans = [sigmoid, clip_exp], by position.
p_trans(i, x) == IF i = 1 THEN sigmoid(x) ELSE clip_exp(x)

\* len(RL.p_trans)
n_trans == 2

Min(a, b) == IF a <= b THEN a ELSE b

\* [fn(p) for fn, p in zip(self.p_trans, params)]: zip stops at the shorter.
native(params) ==
    [i \in 1..Min(n_trans, Len(params)) |-> p_trans(i, params[i])]

\* params[0] or params[1] is out of range of the transformed list.
load_params_raises(params) == Len(native(params)) < Len(p_name)

\* The object after RL.load_params; an IndexError at params[1] comes after
\* self.alpha was assigned.
load_params(a, params) ==
    LET nat == native(params)
    IN  IF Len(nat) = 0 THEN a
        ELSE IF Len(nat) = 1 THEN [a EXCEPT !.alpha = nat[1]]
        ELSE [a EXCEPT !.alpha = nat[1], !.beta = nat[2]]

\* self.p1 = 1/2;  self.p_S = np.array([1 - self.p1, self.p1])
_init_critic(a) ==
    LET p == <<1, 2>>
    IN  [a EXCEPT !.p1 = p, !.p_S = <<RSub(Rat(1), p), p>>]

\* self.mem = simpleBuffer()
_init_buffer(a) == [a EXCEPT !.mem = EmptyMem]

\* baseAgent.__init__ for an RL whose load_params does not raise:
\* load_params, _init_believes (critic; actor and dists pass), _init_buffer.
new_RL(params) ==
    _init_buffer(_init_critic(load_params([NoAgent EXCEPT !.cls = "RL"], params)))

\* baseAgent.__init__ on the abstract base: load_params returns the class
\* NotImplementedError (the value is dropped), the _init_* hooks pass.
new_base == _init_buffer([NoAgent EXCEPT !.cls = "base"])

LearnKeys == <<"s", "t_type", "f_type">>

\* A plausible slip: only the key the update rule uses is looked up.
learn_raises_s(a) == sample_raises(a.mem, <<"s">>)

\* RL.learn raises iff self.mem.sample('s', 't_type', 'f_type') does.
learn_raises(a) == sample_raises(a.mem, LearnKeys)

\* A plausible slip: the belief pair is not rebuilt after the update.
_learn_critic_stale(a) ==
    LET s     == Rat(sample(a.mem, LearnKeys)[1])
        delta == RSub(s, a.p1)
    IN  [a EXCEPT !.o  = IF RPos(delta) THEN "pos" ELSE "neg",
                  !.p1 = RAdd(a.p1, RMul(a.alpha, delta))]

\* RL._learn_critic, when sample succeeds.
_learn_critic(a) ==
    LET s     == Rat(sample(a.mem, LearnKeys)[1])
        delta == RSub(s, a.p1)
        p     == RAdd(a.p1, RMul(a.alpha, delta))
    IN  [a EXCEPT !.o   = IF RPos(delta) THEN "pos" ELSE "neg",
                  !.p1  = p,
                  !.p_S = <<RSub(Rat(1), p), p>>]

\* softmax of a two-element vector: the distribution
\* (1 - sig(d), sig(d)) with d = x[2] - x[1], kept as its logit d.
softmax(x) == <<RSub(x[2], x[1])>>

\* A plausible slip: the modulation is folded into the belief in place.
policy_inplace(a, m) ==
    LET b == <<RMul(a.p_S[1], Rat(m[1])), RMul(a.p_S[2], Rat(m[2]))>>
    IN  [a EXCEPT !.p_S = b,
                  !.pi  = softmax(<<RMul(a.beta, b[1]), RMul(a.beta, b[2])>>)]

\* RL.policy: self.pi = softmax(self.beta * self.p_S * m)
policy(a, m) ==
    [a EXCEPT !.pi = softmax(<<RMul(a.beta, RMul(a.p_S[1], Rat(m[1]))),
                               RMul(a.beta, RMul(a.p_S[2], Rat(m[2])))>>)]

\* get_pS1: self.p_S[1]
get_pS1(a) == a.p_S[2]

----------------------------------------------------------------------------
(* Calls on one agent object and its buffer (specification SpecAgent) *)

Returned(op, args, val, vals) ==
    [op |-> op, args |-> args, kind |-> "returned", val |-> val, vals |-> vals]

Raised(op, args, exc) ==
    [op |-> op, args |-> args, kind |-> "raised", val |-> exc, vals |-> << >>]

Workers == {"main", "pool"}

\* A call frame: the operation, where it stands (block b, trial t), its
\* arguments (params, seed), its locals (rng, subj, the block's accumulator
\* acc, the per-block results out) and how it ended (res, exc).
\* No call of the table-level operations has been made.
NoResult ==
    [op |-> "none", kind |-> "none", exc |-> "none", params |-> << >>, seed |-> 0,
     p_priors |-> [given |-> FALSE, pris |-> << >>], out |-> << >>, res |-> << >>, trace |-> << >>]

TableIdle ==
    /\ agent_voi = << >>
    /\ frames = << >>
    /\ result = NoResult

Idle ==
    [op |-> "none", pc |-> "idle", params |-> << >>, seed |-> 0, rng |-> 0,
     b |-> 0, t |-> 0, subj |-> NoAgent, acc |-> << >>, out |-> << >>,
     res |-> << >>, exc |-> "none"]

WrapperIdle ==
    /\ data = << >>
    /\ use_hook = FALSE
    /\ insights = [keys |-> << >>, log |-> EmptyMem]
    /\ reg_dropped = FALSE
    /\ calls = [w \in Workers |-> Idle]

InitAgent ==
    /\ subj = NoAgent
    /\ ret = Returned("none", << >>, "None", << >>)
    /\ last_push = EmptyMem
    /\ WrapperIdle
    /\ TableIdle

WrapperVars == <<data, use_hook, insights, reg_dropped, calls>>

\* subj = baseAgent(nA, params)
NewBase ==
    \E params \in ParamVecs :
        /\ subj' = new_base
        /\ ret' = Returned("baseAgent", params, "object", << >>)
        /\ last_push' = EmptyMem
        /\ UNCHANGED <<WrapperVars, TableVars>>

\* subj = RL(env, params); a raise in __init__ leaves subj bound as before.
NewRL ==
    \E params \in ParamVecs :
        /\ IF load_params_raises(params)
           THEN /\ ret' = Raised("RL", params, "IndexError")
                /\ UNCHANGED <<subj, last_push>>
           ELSE /\ subj' = new_RL(params)
                /\ ret' = Returned("RL", params, "object", << >>)
                /\ last_push' = EmptyMem
        /\ UNCHANGED <<WrapperVars, TableVars>>

\* subj.load_params(params) on the abstract base: return NotImplementedError.
\* (RL.load_params is called by the constructor, NewRL.)
CallLoadParams ==
    \E params \in ParamVecs :
        /\ subj.cls = "base"
        /\ ret' = Returned("load_params", params, "NotImplementedError", << >>)
        /\ UNCHANGED subj
        /\ UNCHANGED <<last_push, WrapperVars, TableVars>>

\* subj.learn()
CallLearn ==
    /\ subj.cls # "none"
    /\ subj.cls = "RL" => subj.p1[2] <= MaxDen
    /\ IF subj.cls = "base"
       THEN /\ ret' = Returned("learn", << >>, "NotImplementedError", << >>)
            /\ UNCHANGED subj
       ELSE IF learn_raises(subj)
       THEN /\ ret' = Raised("learn", << >>, "KeyError")
            /\ UNCHANGED subj
       ELSE /\ subj' = _learn_critic(subj)
            /\ ret' = Returned("learn", << >>, "None", << >>)
    /\ UNCHANGED <<last_push, WrapperVars, TableVars>>

\* subj.policy(m)
CallPolicy ==
    \E m \in Mods :
        /\ subj.cls # "none"
        /\ IF subj.cls = "base"
           THEN /\ ret' = Returned("policy", m, "NotImplementedError", << >>)
                /\ UNCHANGED subj
           ELSE /\ subj' = policy(subj, m)
                /\ ret' = Returned("policy", m, "pi", << >>)
        /\ UNCHANGED <<last_push, WrapperVars, TableVars>>

\* subj.mem.push(m_dict)
CallPush ==
    \E m_dict \in Dicts :
        /\ subj.cls # "none"
        /\ subj' = [subj EXCEPT !.mem = push(subj.mem, m_dict)]
        /\ last_push' = m_dict
        /\ ret' = Returned("push", << >>, "None", << >>)
        /\ UNCHANGED <<WrapperVars, TableVars>>

SampleArgs == UNION {[1..n -> Keys] : n \in 1..2}

\* subj.mem.sample(*args)
CallSample ==
    \E args \in SampleArgs :
        /\ subj.cls # "none"
        /\ ret' = IF sample_raises(subj.mem, args)
                  THEN Raised("sample", args, "KeyError")
                  ELSE Returned("sample", args,
                                IF Len(args) = 1 THEN "value" ELSE "list",
                                sample(subj.mem, args))
        /\ UNCHANGED <<subj, last_push, WrapperVars, TableVars>>

NextAgent ==
    \/ NewBase
    \/ NewRL
    \/ CallLoadParams
    \/ CallLearn
    \/ CallPolicy
    \/ CallPush
    \/ CallSample

SpecAgent == InitAgent /\ [][NextAgent]_vars

----------------------------------------------------------------------------
(* The dataset, the environment collaborator and the random source *)

MaxTrials == 3
MaxBlocks == 2

\* A trial record carries the observed outcome indicator s.  A dataset is
\* its blocks in iteration order; the model's datasets have up to MaxBlocks
\* blocks of 0..MaxTrials trials whose outcomes are all 1, pattern (1, 0), or
\* alternate from trial to trial and block to block, pattern (0, 1); the
\* mirrored patterns behave alike under the delta rule (s, p1 -> 1-s, 1-p1).
Lens == UNION {[1..n -> 0..MaxTrials] : n \in 0..MaxBlocks}
Patterns == {<<1, 0>>, <<0, 1>>}
MkBlock(len, b, p) == [t \in 1..len |-> [s |-> (p[1] + p[2] * (b + t)) % 2]]
Datasets ==
    {[b \in 1..Len(lens) |-> MkBlock(lens[b], b, p)] : lens \in Lens, p \in Patterns}

\* The parameter vectors and random-source states handed to the wrapper.
WParams == {<<0, 0>>, <<-1, -1>>, <<0>>}
Seeds == {0, 1}

\* The modulation the environment hands to policy.
EnvMod == <<1, 1>>

\* What the environment pushes to the agent's buffer for a trial with outcome s.
TrialMem(s) == [k \in Keys |-> IF k = "s" THEN s ELSE 0]

\* One draw from the random source in state r, and the state it leaves.
Draw(r) == r % 2
RngNext(r) == r + 1

\* The agent after the environment's per-trial use of it: policy, push, learn.
env_step(a, s) ==
    _learn_critic([policy(a, EnvMod) EXCEPT !.mem = push(a.mem, TrialMem(s))])

\* env.eval_fn(row, subj): the trial's log-likelihood contribution, here the
\* score p(s) - 1 <= 0 of the observed outcome under the belief held before
\* the update, and the agent it leaves.
eval_fn(row, a) ==
    [ll |-> RSub(a.p_S[row.s + 1], Rat(1)), subj |-> env_step(a, row.s)]

\* env.sim_fn(row, subj, rng): draws the trial's outcome from the random
\* source, drives the agent and returns the generated values.
sim_fn(row, a, r) ==
    [voi |-> <<Draw(r)>>, subj |-> env_step(a, Draw(r)), rng |-> RngNext(r)]

----------------------------------------------------------------------------
(* wrapper: hooks *)

HookNames == {"pS1", "bad"}
MaxHooks == 2
HookArgs == UNION {[1..n -> HookNames] : n \in 0..MaxHooks}

\* The getters RL defines that the model records.
Getters == {"pS1"}

\* eval(f'subj.get_{k}()') for a name RL defines.
getter(a, k) == get_pS1(a)

RECURSIVE dict_keys(_)
\* The key order of {k: [] for k in args}: first occurrences, in order.
dict_keys(args) ==
    IF args = << >> THEN << >>
    ELSE LET init == dict_keys(SubSeq(args, 1, Len(args) - 1))
             k    == args[Len(args)]
         IN  IF \E i \in 1..Len(init) : init[i] = k THEN init ELSE Append(init, k)

\* A plausible slip: re-registering keeps the logs of names registered before.
register_keep(ins, args) ==
    [keys |-> dict_keys(args),
     log  |-> [k \in {args[i] : i \in 1..Len(args)} |->
                  IF k \in DOMAIN ins.log THEN ins.log[k] ELSE << >>]]

\* self.insights = {k: [] for k in args}
register_hooks(ins, args) ==
    [keys |-> dict_keys(args),
     log  |-> [k \in {args[i] : i \in 1..Len(args)} |-> << >>]]

RECURSIVE hook_loop_skip(_, _, _)
\* A plausible slip: a name without a getter is skipped (a caught error).
hook_loop_skip(ins, a, i) ==
    IF i > Len(ins.keys) THEN [ins |-> ins, raised |-> FALSE]
    ELSE IF ins.keys[i] \notin Getters THEN hook_loop_skip(ins, a, i + 1)
    ELSE hook_loop_skip([ins EXCEPT !.log[ins.keys[i]] = Append(@, getter(a, ins.keys[i]))],
                        a, i + 1)

RECURSIVE hook_loop_front(_, _, _)
\* A plausible slip: the value is inserted at the front of the log.
hook_loop_front(ins, a, i) ==
    IF i > Len(ins.keys) THEN [ins |-> ins, raised |-> FALSE]
    ELSE IF ins.keys[i] \notin Getters THEN [ins |-> ins, raised |-> TRUE]
    ELSE hook_loop_front([ins EXCEPT !.log[ins.keys[i]] = <<getter(a, ins.keys[i])>> \o @],
                         a, i + 1)

RECURSIVE hook_loop(_, _, _)
\* for k in self.insights.keys(): self.insights[k].append(eval(...)), from
\* the i-th key on; an unknown getter raises AttributeError and ends the loop.
hook_loop(ins, a, i) ==
    IF i > Len(ins.keys) THEN [ins |-> ins, raised |-> FALSE]
    ELSE IF ins.keys[i] \notin Getters THEN [ins |-> ins, raised |-> TRUE]
    ELSE hook_loop([ins EXCEPT !.log[ins.keys[i]] = Append(@, getter(a, ins.keys[i]))],
                   a, i + 1)

----------------------------------------------------------------------------
(* wrapper: the three operations as pure functions of their arguments *)

RECURSIVE SumRat(_)
SumRat(xs) ==
    IF xs = << >> THEN Rat(0) ELSE RAdd(SumRat(SubSeq(xs, 1, Len(xs) - 1)), xs[Len(xs)])

RECURSIVE Concat(_)
Concat(xss) ==
    IF xss = << >> THEN << >> ELSE Concat(SubSeq(xss, 1, Len(xss) - 1)) \o xss[Len(xss)]

RECURSIVE loglike_from(_, _, _, _)
\* The loop of loglike from trial t on, with accumulator ll.
loglike_from(a, block, t, ll) ==
    IF t > Len(block) THEN ll
    ELSE LET r == eval_fn(block[t], a)
         IN  loglike_from(r.subj, block, t + 1, RAdd(ll, r.ll))

\* wrapper.loglike(params, block_data) for a block it accepts.
loglike(params, block) == loglike_from(new_RL(params), block, 1, Rat(0))

\* wrapper.loss_fn(params, sub_data) with p_priors = None.
loss_fn(params, d) == RNeg(SumRat([i \in 1..Len(d) |-> loglike(params, d[i])]))

RECURSIVE eval_block_from(_, _, _, _)
eval_block_from(a, block, t, rows) ==
    IF t > Len(block) THEN rows
    ELSE LET r == eval_fn(block[t], a)
         IN  eval_block_from(r.subj, block, t + 1,
                             Append(rows, [row |-> block[t], ll |-> r.ll]))

\* wrapper.eval_block(block_data, params): the block's rows with their ll.
eval_block(block, params) == eval_block_from(new_RL(params), block, 1, << >>)

RECURSIVE sim_block_from(_, _, _, _, _)
sim_block_from(a, block, t, r, rows) ==
    IF t > Len(block) THEN rows
    ELSE LET g == sim_fn(block[t], a, r)
         IN  sim_block_from(g.subj, block, t + 1, g.rng,
                            Append(rows, [row |-> block[t], voi |-> g.voi]))

\* wrapper.sim_block(block_data, params, rng) with the random source in
\* state r on entry: the block's rows with the generated values.
sim_block(block, params, r) == sim_block_from(new_RL(params), block, 1, r, << >>)

----------------------------------------------------------------------------
(* wrapper: the operations step by step (one step per block start, trial,  *)
(* final aggregation and return)                                           *)

MaxLog == 3

Frame(w) == calls[w]
Block(w) == data[calls[w].b]

Upd(w, f) == calls' = [calls EXCEPT ![w] = f]

AgentVars == <<subj, ret, last_push>>
HookVars == <<use_hook, insights, reg_dropped>>

\* A call of op with the given arguments enters its loop over the blocks.
Enter(w, op, params, seed) ==
    /\ Frame(w).pc = "idle"
    /\ Upd(w, [Idle EXCEPT !.op = op, !.pc = "block", !.params = params,
                           !.seed = seed, !.rng = seed, !.b = 1])
    /\ UNCHANGED <<data, AgentVars, TableVars, HookVars>>

\* The head of loglike / eval_block / sim_block: block_data.loc[0, 'block_type']
\* (KeyError on a block without rows), env = self.env_fn(block_type),
\* subj = self.agent(env, params) (IndexError from load_params), blank locals.
BlockHead(w, acc0) ==
    IF Block(w) = << >>
    THEN Upd(w, [Frame(w) EXCEPT !.pc = "raised", !.exc = "KeyError"])
    ELSE IF load_params_raises(Frame(w).params)
    THEN Upd(w, [Frame(w) EXCEPT !.pc = "raised", !.exc = "IndexError"])
    ELSE Upd(w, [Frame(w) EXCEPT !.pc = "trial", !.t = 1, !.acc = acc0,
                                 !.subj = new_RL(Frame(w).params)])

\* The frame after a trial left accumulator acc and agent a: the next trial,
\* or past the last one the block's result joins out and the next block is due.
AfterTrial(f, block, a, acc) ==
    IF f.t < Len(block)
    THEN [f EXCEPT !.t = f.t + 1, !.subj = a, !.acc = acc]
    ELSE [f EXCEPT !.pc = "block", !.b = f.b + 1, !.subj = a, !.acc = acc,
                   !.out = Append(f.out, acc)]

InBlockLoop(w, op) ==
    /\ Frame(w).op = op
    /\ Frame(w).pc = "block"
    /\ Frame(w).b <= Len(data)

InTrialLoop(w, op) ==
    /\ Frame(w).op = op
    /\ Frame(w).pc = "trial"

AtEnd(w, op) ==
    /\ Frame(w).op = op
    /\ Frame(w).pc = "block"
    /\ Frame(w).b > Len(data)

\* ---- loss_fn ----

LossCall(w) == \E params \in WParams : Enter(w, "loss", params, 0)

\* A plausible slip: the agent is built once and carried over to later blocks.
LoglikeStartReuse(w) ==
    /\ InBlockLoop(w, "loss")
    /\ IF Frame(w).b > 1 /\ Block(w) # << >>
       THEN Upd(w, [Frame(w) EXCEPT !.pc = "trial", !.t = 1, !.acc = Rat(0)])
       ELSE BlockHead(w, Rat(0))
    /\ UNCHANGED <<data, AgentVars, TableVars, HookVars>>

\* loglike, lines 102-106: ll = 0 and a new env and agent.
LoglikeStart(w) ==
    /\ InBlockLoop(w, "loss")
    /\ BlockHead(w, Rat(0))
    /\ UNCHANGED <<data, AgentVars, TableVars, HookVars>>

\* A plausible slip: the agent is kept on the wrapper, so that a second
\* worker's trial runs on the agent the first worker is using.
LoglikeTrialShared(w) ==
    /\ InTrialLoop(w, "loss")
    /\ LET f == Frame(w)
           a == IF w # "main" /\ Frame("main").pc = "trial"
                THEN Frame("main").subj ELSE f.subj
           r == eval_fn(Block(w)[f.t], a)
       IN  Upd(w, AfterTrial(f, Block(w), r.subj, RAdd(f.acc, r.ll)))
    /\ UNCHANGED <<data, AgentVars, TableVars, HookVars>>

\* loglike, one turn of the loop: ll += env.eval_fn(row, subj)
LoglikeTrial(w) ==
    /\ InTrialLoop(w, "loss")
    /\ LET f == Frame(w)
           r == eval_fn(Block(w)[f.t], f.subj)
       IN  Upd(w, AfterTrial(f, Block(w), r.subj, RAdd(f.acc, r.ll)))
    /\ UNCHANGED <<data, AgentVars, TableVars, HookVars>>

\* loss_fn: -np.sum([...]) + 0 (no prior)
LossFinish(w) ==
    /\ AtEnd(w, "loss")
    /\ Upd(w, [Frame(w) EXCEPT !.pc = "done", !.res = RNeg(SumRat(Frame(w).out))])
    /\ UNCHANGED <<data, AgentVars, TableVars, HookVars>>

\* ---- eval ----

EvalCall(w) == \E params \in WParams : Enter(w, "eval", params, 0)

\* A plausible slip: the agent of the previous block is used again.
EvalBlockStartReuse(w) ==
    /\ InBlockLoop(w, "eval")
    /\ IF Frame(w).b > 1 /\ Block(w) # << >>
       THEN Upd(w, [Frame(w) EXCEPT !.pc = "trial", !.t = 1, !.acc = << >>])
       ELSE BlockHead(w, << >>)
    /\ UNCHANGED <<data, AgentVars, TableVars, HookVars>>

\* eval_block, lines 135-143
EvalBlockStart(w) ==
    /\ InBlockLoop(w, "eval")
    /\ BlockHead(w, << >>)
    /\ UNCHANGED <<data, AgentVars, TableVars, HookVars>>

\* A plausible slip: the hook loop of sim_block copied into eval_block.
EvalTrialHooked(w) ==
    /\ InTrialLoop(w, "eval")
    /\ LET f == Frame(w)
           r == eval_fn(Block(w)[f.t], f.subj)
           h == IF use_hook THEN hook_loop_skip(insights, r.subj, 1)
                ELSE [ins |-> insights, raised |-> FALSE]
       IN  /\ insights' = h.ins
           /\ Upd(w, AfterTrial(f, Block(w), r.subj,
                                Append(f.acc, [row |-> Block(w)[f.t], ll |-> r.ll])))
    /\ UNCHANGED <<data, AgentVars, TableVars, use_hook, reg_dropped>>

\* eval_block, one turn of the loop: pred_data.loc[t, 'll'] = env.eval_fn(row, subj)
EvalTrial(w) ==
    /\ InTrialLoop(w, "eval")
    /\ LET f == Frame(w)
           r == eval_fn(Block(w)[f.t], f.subj)
       IN  Upd(w, AfterTrial(f, Block(w), r.subj,
                             Append(f.acc, [row |-> Block(w)[f.t], ll |-> r.ll])))
    /\ UNCHANGED <<data, AgentVars, TableVars, HookVars>>

\* pd.concat(sim_data, ignore_index=True): ValueError on an empty list.
ConcatFinish(w) ==
    IF Frame(w).out = << >>
    THEN Upd(w, [Frame(w) EXCEPT !.pc = "raised", !.exc = "ValueError"])
    ELSE Upd(w, [Frame(w) EXCEPT !.pc = "done", !.res = Concat(Frame(w).out)])

EvalFinish(w) ==
    /\ AtEnd(w, "eval")
    /\ ConcatFinish(w)
    /\ UNCHANGED <<data, AgentVars, TableVars, HookVars>>

\* ---- sim ----

RECURSIVE TotalTrials(_)
TotalTrials(d) ==
    IF d = << >> THEN 0 ELSE TotalTrials(SubSeq(d, 1, Len(d) - 1)) + Len(d[Len(d)])

\* sim is started while every hook log has room for the dataset's trials.
SimCall(w) ==
    /\ \A k \in DOMAIN insights.log : Len(insights.log[k]) + TotalTrials(data) <= MaxLog
    /\ \E params \in WParams, seed \in Seeds : Enter(w, "sim", params, seed)

\* sim, lines 168-172, and sim_block, lines 178-186
SimBlockStart(w) ==
    /\ InBlockLoop(w, "sim")
    /\ BlockHead(w, << >>)
    /\ UNCHANGED <<data, AgentVars, TableVars, HookVars>>

\* sim_block, one turn of the loop: env.sim_fn, the agent's voi (RL.voi is
\* empty), the hooks when use_hook, then the generated values.
SimTrial(w) ==
    /\ InTrialLoop(w, "sim")
    /\ LET f == Frame(w)
           g == sim_fn(Block(w)[f.t], f.subj, f.rng)
           h == IF use_hook THEN hook_loop(insights, g.subj, 1)
                ELSE [ins |-> insights, raised |-> FALSE]
       IN  /\ insights' = h.ins
           /\ IF h.raised
              THEN Upd(w, [f EXCEPT !.pc = "raised", !.exc = "AttributeError",
                                    !.subj = g.subj, !.rng = g.rng])
              ELSE Upd(w, AfterTrial([f EXCEPT !.rng = g.rng], Block(w), g.subj,
                                     Append(f.acc, [row |-> Block(w)[f.t], voi |-> g.voi])))
    /\ UNCHANGED <<data, AgentVars, TableVars, use_hook, reg_dropped>>

SimFinish(w) ==
    /\ AtEnd(w, "sim")
    /\ ConcatFinish(w)
    /\ UNCHANGED <<data, AgentVars, TableVars, HookVars>>

\* ---- register_hooks, and the return to the caller ----

\* self.use_hook = True;  self.insights = {k: [] for k in args}
RegisterHooks ==
    /\ Frame("main").pc = "idle"
    /\ \E args \in HookArgs :
        /\ use_hook' = TRUE
        /\ insights' = register_hooks(insights, args)
    /\ reg_dropped' = \E k \in DOMAIN insights.log : insights.log[k] # << >>
    /\ UNCHANGED <<data, AgentVars, TableVars, calls>>

\* The call has returned or raised; the caller goes on.
Return(w) ==
    /\ Frame(w).pc \in {"done", "raised"}
    /\ Upd(w, Idle)
    /\ UNCHANGED <<data, AgentVars, TableVars, HookVars>>

----------------------------------------------------------------------------
(* DataFrames: the tables of the caller's dataset and of the results.  A   *)
(* frame is its column labels, its index labels and its rows, each row a   *)
(* tuple of cells aligned with the columns.                                *)

\* Cells are floats: exact rationals <<n, d>>, and NaN with denominator 0.
\* Block types are held as codes.
NaN == <<0, 0>>

\* F of the value of x, with x evaluated once.
Then(x, F(_)) == CHOOSE y \in {F(v) : v \in {x}} : TRUE

RECURSIVE Ascending(_, _)
\* The members up to n of a set K of positions, in increasing order.
Ascending(K, n) ==
    IF n = 0 THEN << >>
    ELSE Ascending(K, n - 1) \o (IF n \in K THEN <<n>> ELSE << >>)

\* The frame restricted to the columns at the given positions.
Take(df, pos) ==
    [columns |-> [k \in 1..Len(pos) |-> df.columns[pos[k]]],
     index   |-> df.index,
     rows    |-> [t \in 1..Len(df.rows) |-> [k \in 1..Len(pos) |-> df.rows[t][pos[k]]]]]

\* v in df.columns
HasCol(df, v) == \E j \in 1..Len(df.columns) : df.columns[j] = v

\* The position of the first column labelled v, and the cell under it in the
\* t-th row.
ColPos(df, v) ==
    CHOOSE j \in 1..Len(df.columns) :
        df.columns[j] = v /\ \A i \in 1..(j - 1) : df.columns[i] # v

Cell(df, t, v) == df.rows[t][ColPos(df, v)]

\* df.copy()
copy(df) == [columns |-> df.columns, index |-> df.index, rows |-> df.rows]

\* df.drop(columns=v): a new frame without the columns labelled v.
drop(df, v) ==
    Take(df, Ascending({j \in 1..Len(df.columns) : df.columns[j] # v}, Len(df.columns)))

\* A plausible slip: the blank columns are not dropped.
dropna_keep(df) == df

\* df.dropna(axis=1, how='all'): a new frame without the columns whose cells
\* are all NaN.
dropna(df) ==
    Take(df, Ascending({j \in 1..Len(df.columns) :
                            \E t \in 1..Len(df.rows) : df.rows[t][j] # NaN},
                       Len(df.columns)))

\* pd.DataFrame(np.zeros([n, len(col)]) + np.nan, columns=col)
blank(n, col) ==
    [columns |-> col,
     index   |-> [t \in 1..n |-> t - 1],
     rows    |-> [t \in 1..n |-> [j \in 1..Len(col) |-> NaN]]]

\* df.loc[label, v] = x for a label of df's index and a column of df.
set_loc(df, label, v, x) ==
    LET t == CHOOSE i \in 1..Len(df.index) : df.index[i] = label
    IN  [df EXCEPT !.rows[t][ColPos(df, v)] = x]

\* pd.concat([a, b], axis=1) of two frames with the same index.
concat_columns(a, b) ==
    [columns |-> a.columns \o b.columns,
     index   |-> a.index,
     rows    |-> [t \in 1..Len(a.rows) |-> a.rows[t] \o b.rows[t]]]

\* The rows of df laid out under the column labels cols, NaN where df has no
\* such column.
Under(df, cols) ==
    [t \in 1..Len(df.rows) |->
        [k \in 1..Len(cols) |-> IF HasCol(df, cols[k]) THEN Cell(df, t, cols[k]) ELSE NaN]]

\* pd.concat(dfs, ignore_index=True) of a non-empty list: the union of the
\* columns in order of appearance, the rows in list order, a new index.
concat_rows(dfs) ==
    LET cols == dict_keys(Concat([i \in 1..Len(dfs) |-> dfs[i].columns]))
        rows == Concat([i \in 1..Len(dfs) |-> Under(dfs[i], cols)])
    IN  [columns |-> cols, index |-> [t \in 1..Len(rows) |-> t - 1], rows |-> rows]

\* block_data.loc[0, 'block_type'] raises KeyError: no row labelled 0 or no
\* such column.
loc0_raises(df) ==
    \/ ~HasCol(df, "block_type")
    \/ ~\E t \in 1..Len(df.index) : df.index[t] = 0

\* The fields of the t-th trial record that the environment reads.
Row(df, t) == [s |-> IF HasCol(df, "s") THEN Cell(df, t, "s")[1] ELSE NaN]

\* The dataset as the trial records of its blocks.
Blocks(d) == [i \in 1..Len(d) |-> [t \in 1..Len(d[i].rows) |-> Row(d[i], t)]]

\* The names of the variables the environment generates: env_fn.voi.
env_voi == <<"s">>

----------------------------------------------------------------------------
(* wrapper.sim on DataFrames *)

RECURSIVE strip_none(_, _, _)
\* A plausible slip: drop is not in place and its result is not kept.
strip_none(df, voi, i) ==
    IF i > Len(voi) THEN df ELSE strip_none(df, voi, i + 1)

RECURSIVE strip(_, _, _)
\* sim, lines 169-171: for v in self.env_fn.voi, from the i-th name on.
strip(df, voi, i) ==
    IF i > Len(voi) THEN df
    ELSE strip(IF HasCol(df, voi[i]) THEN drop(df, voi[i]) ELSE df, voi, i + 1)

RECURSIVE set_each(_, _, _, _, _)
\* for i, v in enumerate(names): pred_data.loc[label, v] = vals[i]
set_each(pred, label, names, vals, i) ==
    IF i > Len(names) THEN pred
    ELSE set_each(set_loc(pred, label, names[i], vals[i]), label, names, vals, i + 1)

\* The values of the agent's declared quantities: eval(f'subj.get_{v}()').
voi_values(a, avoi) == [i \in 1..Len(avoi) |-> getter(a, avoi[i])]

\* The state of sim_block's loop: the agent, the random source, the output
\* table, the hook logs and the exception raised, if any.
LoopState(a, r, pred, ins, exc) ==
    [subj |-> a, rng |-> r, pred |-> pred, ins |-> ins, exc |-> exc]

\* A plausible slip: the agent's quantities and the hooks are read before
\* the generative call.
sim_row_pre(st, block, t, avoi, on) ==
    IF \E i \in 1..Len(avoi) : avoi[i] \notin Getters
    THEN [st EXCEPT !.exc = "AttributeError"]
    ELSE LET g  == sim_fn(Row(block, t), st.subj, st.rng)
             p1 == set_each(st.pred, block.index[t], avoi, voi_values(st.subj, avoi), 1)
             h  == IF on THEN hook_loop(st.ins, st.subj, 1)
                   ELSE [ins |-> st.ins, raised |-> FALSE]
         IN  IF h.raised THEN LoopState(g.subj, g.rng, p1, h.ins, "AttributeError")
             ELSE LoopState(g.subj, g.rng,
                            set_each(p1, block.index[t], env_voi,
                                     [i \in 1..Len(g.voi) |-> Rat(g.voi[i])], 1),
                            h.ins, "none")

\* sim_block, lines 192-205, one turn of the loop on the t-th row: the
\* generative call, the agent's declared quantities, the hooks when
\* use_hook is on, the generated values.
sim_row(st, block, t, avoi, on) ==
    LET g == sim_fn(Row(block, t), st.subj, st.rng)
    IN  IF \E i \in 1..Len(avoi) : avoi[i] \notin Getters
        THEN LoopState(g.subj, g.rng, st.pred, st.ins, "AttributeError")
        ELSE LET p1 == set_each(st.pred, block.index[t], avoi, voi_values(g.subj, avoi), 1)
                 h  == IF on THEN hook_loop(st.ins, g.subj, 1)
                       ELSE [ins |-> st.ins, raised |-> FALSE]
             IN  IF h.raised THEN LoopState(g.subj, g.rng, p1, h.ins, "AttributeError")
                 ELSE LoopState(g.subj, g.rng,
                                set_each(p1, block.index[t], env_voi,
                                         [i \in 1..Len(g.voi) |-> Rat(g.voi[i])], 1),
                                h.ins, "none")

RECURSIVE sim_rows(_, _, _, _, _)
\* sim_block, line 189: the loop from the t-th row on, until a turn raises.
sim_rows(st, block, t, avoi, on) ==
    IF t > Len(block.rows) \/ st.exc # "none" THEN st
    ELSE Then(sim_row(st, block, t, avoi, on),
              LAMBDA nx : sim_rows(nx, block, t + 1, avoi, on))

\* wrapper.sim_block(block_data, params, rng) on a frame, with the agent
\* class's voi and the wrapper's hooks: the block's result frame, the random
\* source and the hook logs it leaves, or the exception it raises.
sim_block_df(block, params, r, avoi, hook) ==
    IF loc0_raises(block)
    THEN [exc |-> "KeyError", df |-> << >>, rng |-> r, ins |-> hook.ins]
    ELSE IF load_params_raises(params)
    THEN [exc |-> "IndexError", df |-> << >>, rng |-> r, ins |-> hook.ins]
    ELSE Then(sim_rows(LoopState(new_RL(params), r,
                                 blank(Len(block.rows), env_voi \o avoi), hook.ins, "none"),
                       block, 1, avoi, hook.on),
              LAMBDA l : [exc |-> l.exc,
                          df  |-> IF l.exc = "none"
                                  THEN concat_columns(block, dropna(l.pred)) ELSE << >>,
                          rng |-> l.rng, ins |-> l.ins])

\* The state of sim's loop: the results so far, the random source, the hook
\* logs, the exception raised, if any, and the caller's dataset.
SimState(sim_data, r, ins, exc, d) ==
    [out |-> sim_data, rng |-> r, ins |-> ins, exc |-> exc, data |-> d]

\* Lines 171-172 for one block, once block_data is bound: sim_block, and
\* its result appended.
sim_one(st, block_data, params, avoi, on, d) ==
    Then(sim_block_df(block_data, params, st.rng, avoi, [on |-> on, ins |-> st.ins]),
         LAMBDA b : IF b.exc # "none" THEN SimState(st.out, b.rng, b.ins, b.exc, d)
                    ELSE SimState(Append(st.out, b.df), b.rng, b.ins, "none", d))

\* A plausible slip: no copy, and the colliding columns dropped in place
\* from the caller's frame.
sim_step_inplace(st, i, params, avoi, on) ==
    Then(strip(st.data[i], env_voi, 1),
         LAMBDA block_data :
             sim_one(st, block_data, params, avoi, on, [st.data EXCEPT ![i] = block_data]))

\* sim, lines 168-172, for the i-th block: block_data is a copy of the
\* caller's frame and drop returns a new frame, so the caller's dataset is
\* left as it is.
sim_step(st, i, params, avoi, on) ==
    Then(strip(copy(st.data[i]), env_voi, 1),
         LAMBDA block_data : sim_one(st, block_data, params, avoi, on, st.data))

RECURSIVE sim_blocks(_, _, _, _, _)
\* sim, line 167: the loop from the i-th block on, until a block raises.
sim_blocks(st, i, params, avoi, on) ==
    IF i > Len(st.data) \/ st.exc # "none" THEN st
    ELSE Then(sim_step(st, i, params, avoi, on),
              LAMBDA nx : sim_blocks(nx, i + 1, params, avoi, on))

\* pd.concat(sim_data, ignore_index=True): ValueError on an empty list.
finish(l) ==
    IF l.exc # "none" THEN [exc |-> l.exc, out |-> l.out, res |-> << >>]
    ELSE IF l.out = << >> THEN [exc |-> "ValueError", out |-> l.out, res |-> << >>]
    ELSE [exc |-> "none", out |-> l.out, res |-> concat_rows(l.out)]

----------------------------------------------------------------------------
(* wrapper.eval on DataFrames *)

\* eval_block, lines 153-156, one turn of the loop on the t-th row of block
\* i: env.eval_fn (which reads the record's s: KeyError without that
\* column), then the ll cell.  The agent's declared quantities are not
\* recorded (lines 149-150 are comments).  trace lists the calls of
\* env.eval_fn.
eval_row(st, block, t, i) ==
    IF ~HasCol(block, "s") THEN [st EXCEPT !.exc = "KeyError"]
    ELSE LET r == eval_fn(Row(block, t), st.subj)
         IN  [st EXCEPT !.subj  = r.subj,
                        !.pred  = set_loc(st.pred, block.index[t], "ll", r.ll),
                        !.trace = Append(st.trace, [block |-> i, label |-> block.index[t]])]

RECURSIVE eval_rows(_, _, _, _)
\* eval_block, line 146: the loop from the t-th row on.
eval_rows(st, block, t, i) ==
    IF t > Len(block.rows) \/ st.exc # "none" THEN st
    ELSE Then(eval_row(st, block, t, i), LAMBDA nx : eval_rows(nx, block, t + 1, i))

\* wrapper.eval_block(block_data, params) on the i-th frame, with the agent
\* class's voi.
eval_block_df(block, params, avoi, i, trace) ==
    IF loc0_raises(block) THEN [exc |-> "KeyError", df |-> << >>, trace |-> trace]
    ELSE IF load_params_raises(params)
    THEN [exc |-> "IndexError", df |-> << >>, trace |-> trace]
    ELSE Then(eval_rows([subj |-> new_RL(params), exc |-> "none", trace |-> trace,
                         pred |-> blank(Len(block.rows), <<"ll">> \o avoi)],
                        block, 1, i),
              LAMBDA l : [exc   |-> l.exc,
                          df    |-> IF l.exc = "none"
                                    THEN concat_columns(block, dropna(l.pred)) ELSE << >>,
                          trace |-> l.trace])

\* eval, lines 129-130, for the i-th block: eval_block on a copy.
eval_step(st, i, params, avoi) ==
    Then(copy(st.data[i]),
         LAMBDA block_data :
             Then(eval_block_df(block_data, params, avoi, i, st.trace),
                  LAMBDA b : IF b.exc # "none"
                             THEN [st EXCEPT !.exc = b.exc, !.trace = b.trace]
                             ELSE [st EXCEPT !.out = Append(st.out, b.df),
                                             !.trace = b.trace]))

RECURSIVE eval_blocks(_, _, _, _)
\* eval, line 128: the loop from the i-th block on, until a block raises;
\* data is the caller's dataset as the loop leaves it.
eval_blocks(st, i, params, avoi) ==
    IF i > Len(st.data) \/ st.exc # "none" THEN st
    ELSE Then(eval_step(st, i, params, avoi),
              LAMBDA nx : eval_blocks(nx, i + 1, params, avoi))

----------------------------------------------------------------------------
(* wrapper.loss_fn with priors, on DataFrames.  A loss is held as          *)
(* big * max_ + fin with max_ = 1e13 (line 12), big an integer and fin a   *)
(* rational far smaller than max_; a log-density is a rational, or minus   *)
(* infinity (denominator 0) where the density is zero.                     *)

NegInf == <<-1, 0>>

XNum(q) == [big |-> 0, fin |-> q]
XAdd(x, y) == [big |-> x.big + y.big, fin |-> RAdd(x.fin, y.fin)]
XNeg(x) == [big |-> -x.big, fin |-> RNeg(x.fin)]
XLeq(x, y) == x.big < y.big \/ (x.big = y.big /\ RLeq(x.fin, y.fin))

\* p_priors == None
None == [given |-> FALSE, pris |-> << >>]

\* pri.logpdf(param): a prior is held as its log-density at each raw value.
logpdf(pri, param) == pri[param]

\* np.max([lp, -max_]); the finite log-densities of the model are above -max_.
floored(lp) == IF lp[2] = 0 THEN [big |-> -1, fin |-> Rat(0)] ELSE XNum(lp)

RECURSIVE logprior_from(_, _, _, _)
\* The loop of logprior over zip(p_priors, params), from the i-th pair on.
logprior_from(params, pris, i, lpr) ==
    IF i > Min(Len(pris), Len(params)) THEN lpr
    ELSE logprior_from(params, pris, i + 1,
                       XAdd(lpr, floored(logpdf(pris[i], params[i]))))

\* A plausible slip: return lpr inside the loop, after the first pair.
logprior_first(params, pris) ==
    IF Min(Len(pris), Len(params)) = 0 THEN XNum(Rat(0))
    ELSE floored(logpdf(pris[1], params[1]))

\* wrapper.logprior(params, p_priors)
logprior(params, pris) == logprior_from(params, pris, 1, XNum(Rat(0)))

\* wrapper.loglike(params, block_data) on a frame: the block's log likelihood
\* or the exception raised (env.eval_fn reads the record's s).
loglike_df(params, block) ==
    IF loc0_raises(block) THEN [exc |-> "KeyError", ll |-> Rat(0)]
    ELSE IF load_params_raises(params) THEN [exc |-> "IndexError", ll |-> Rat(0)]
    ELSE IF ~HasCol(block, "s") THEN [exc |-> "KeyError", ll |-> Rat(0)]
    ELSE [exc |-> "none",
          ll  |-> loglike_from(new_RL(params),
                               [t \in 1..Len(block.rows) |-> Row(block, t)], 1, Rat(0))]

RECURSIVE loglikes(_, _, _, _)
\* loss_fn, lines 88-89: the list of the blocks' log likelihoods.
loglikes(params, d, i, lls) ==
    IF i > Len(d) THEN [exc |-> "none", out |-> lls]
    ELSE LET b == loglike_df(params, d[i])
         IN  IF b.exc # "none" THEN [exc |-> b.exc, out |-> lls]
             ELSE loglikes(params, d, i + 1, Append(lls, b.ll))

\* A plausible slip: the log prior is added to the loss.
loss_fn_plus(params, d, p_priors) ==
    LET l == loglikes(params, d, 1, << >>)
    IN  IF l.exc # "none" THEN [exc |-> l.exc, out |-> l.out, res |-> << >>]
        ELSE [exc |-> "none", out |-> l.out,
              res |-> XAdd(XNum(RNeg(SumRat(l.out))),
                           IF p_priors = None THEN XNum(Rat(0))
                           ELSE logprior(params, p_priors.pris))]

\* wrapper.loss_fn(params, sub_data, p_priors) on DataFrames.
loss_fn_df(params, d, p_priors) ==
    LET l == loglikes(params, d, 1, << >>)
    IN  IF l.exc # "none" THEN [exc |-> l.exc, out |-> l.out, res |-> << >>]
        ELSE [exc |-> "none", out |-> l.out,
              res |-> XAdd(XNum(RNeg(SumRat(l.out))),
                           IF p_priors = None THEN XNum(Rat(0))
                           ELSE XNeg(logprior(params, p_priors.pris)))]

----------------------------------------------------------------------------
(* Specifications *)

AgentIdle ==
    /\ subj = NoAgent
    /\ ret = Returned("none", << >>, "None", << >>)
    /\ last_push = EmptyMem

\* The wrapper after construction, used from one thread, on some dataset.
Init ==
    /\ AgentIdle
    /\ data \in Datasets
    /\ use_hook = FALSE
    /\ insights = [keys |-> << >>, log |-> EmptyMem]
    /\ reg_dropped = FALSE
    /\ calls = [w \in Workers |-> Idle]
    /\ TableIdle

Next ==
    \/ RegisterHooks
    \/ LossCall("main")
    \/ LoglikeStart("main")
    \/ LoglikeTrial("main")
    \/ LossFinish("main")
    \/ EvalCall("main")
    \/ EvalBlockStart("main")
    \/ EvalTrial("main")
    \/ EvalFinish("main")
    \/ SimCall("main")
    \/ SimBlockStart("main")
    \/ SimTrial("main")
    \/ SimFinish("main")
    \/ Return("main")

Spec == Init /\ [][Next]_vars

\* Parallel fitting: the workers of a pool evaluate loss_fn on the same
\* wrapper and dataset, interleaved at trial granularity, on a wrapper whose
\* hooks were registered before (register_hooks('pS1')).
InitPar ==
    /\ AgentIdle
    /\ data \in Datasets
    /\ use_hook = TRUE
    /\ insights = register_hooks([keys |-> << >>, log |-> EmptyMem], <<"pS1">>)
    /\ reg_dropped = FALSE
    /\ calls = [w \in Workers |-> Idle]
    /\ TableIdle

NextPar ==
    \E w \in Workers :
        \/ LossCall(w)
        \/ LoglikeStart(w)
        \/ LoglikeTrial(w)
        \/ LossFinish(w)
        \/ Return(w)

SpecPar == InitPar /\ [][NextPar]_vars

\* The caller's datasets of DataFrames: the blocks of Datasets under one of
\* three column layouts indexed from 0 (a reset index), or indexed from 1.
Layouts ==
    {[cols |-> <<"block_type", "s">>, first |-> 0],
     [cols |-> <<"block_type", "rt", "s">>, first |-> 0],
     [cols |-> <<"block_type", "rt">>, first |-> 0],
     [cols |-> <<"block_type", "s">>, first |-> 1]}
CellOf(v, row) == IF v = "s" THEN Rat(row.s) ELSE IF v = "rt" THEN Rat(7) ELSE Rat(0)
MkFrame(block, cols, first) ==
    [columns |-> cols,
     index   |-> [t \in 1..Len(block) |-> first + t - 1],
     rows    |-> [t \in 1..Len(block) |-> [j \in 1..Len(cols) |-> CellOf(cols[j], block[t])]]]
FrameSets ==
    {[b \in 1..Len(d) |-> MkFrame(d[b], l.cols, l.first)] : d \in Datasets, l \in Layouts}

\* The voi lists of the agent classes handed to the wrapper: RL's own, and an
\* RL variant that declares the quantity its getter get_pS1 exposes.
AgentVois == {<< >>, <<"pS1">>}

\* A call of a table-level operation is over.
Outcome(op, params, seed, p_priors, f, trace) ==
    [op |-> op, kind |-> IF f.exc = "none" THEN "returned" ELSE "raised",
     exc |-> f.exc, params |-> params, seed |-> seed, p_priors |-> p_priors,
     out |-> f.out, res |-> f.res, trace |-> trace]

\* The caller makes one call on the wrapper and keeps its result.
\* result = wrapper.sim(frames, params, rng), started while every hook log
\* has room for the dataset's trials.
CallSim ==
    /\ result = NoResult
    /\ use_hook => \A k \in DOMAIN insights.log :
                      Len(insights.log[k]) + TotalTrials(Blocks(frames)) <= MaxLog
    /\ \E params \in WParams, seed \in Seeds :
          LET l == sim_blocks(SimState(<< >>, seed, insights, "none", frames), 1,
                              params, agent_voi, use_hook)
          IN  /\ result' = Outcome("sim", params, seed, NoResult.p_priors, finish(l), << >>)
              /\ insights' = l.ins
              /\ frames' = l.data
    /\ UNCHANGED <<agent_voi, use_hook, reg_dropped, data, calls, AgentVars>>

\* result = wrapper.eval(frames, params)
CallEval ==
    /\ result = NoResult
    /\ \E params \in WParams :
          LET l == eval_blocks([out |-> << >>, exc |-> "none", trace |-> << >>,
                                data |-> frames], 1, params, agent_voi)
          IN  /\ result' = Outcome("eval", params, 0, NoResult.p_priors, finish(l), l.trace)
              /\ frames' = l.data
    /\ UNCHANGED <<agent_voi, HookVars, data, calls, AgentVars>>

\* The priors handed to loss_fn: one with density e at its mode 0 and zero
\* density at -1, one with density 1/e at every raw value; p_priors is None
\* or a list of them.
narrow == [r \in RawVals |-> IF r = 0 THEN Rat(1) ELSE NegInf]
flat == [r \in RawVals |-> Rat(-1)]
PriorSpecs ==
    {None} \cup {[given |-> TRUE, pris |-> ps] :
                    ps \in {<< >>, <<narrow>>, <<narrow, flat>>, <<flat, narrow>>}}

\* result = wrapper.loss_fn(params, frames, p_priors)
CallLossFn ==
    /\ result = NoResult
    /\ \E params \in WParams, p_priors \in PriorSpecs :
          result' = Outcome("loss_fn", params, 0, p_priors,
                            loss_fn_df(params, frames, p_priors), << >>)
    /\ UNCHANGED <<frames, agent_voi, HookVars, data, calls, AgentVars>>

InitTable ==
    /\ AgentIdle
    /\ data = << >>
    /\ calls = [w \in Workers |-> Idle]
    /\ reg_dropped = FALSE
    /\ agent_voi \in AgentVois
    /\ use_hook \in IF agent_voi = << >> THEN {FALSE} ELSE BOOLEAN
    /\ insights = IF use_hook
                  THEN register_hooks([keys |-> << >>, log |-> EmptyMem], <<"pS1">>)
                  ELSE [keys |-> << >>, log |-> EmptyMem]
    /\ frames \in FrameSets
    /\ result = NoResult

NextTable ==
    \/ CallSim
    \/ CallEval
    \/ CallLossFn

SpecTable == InitTable /\ [][NextTable]_vars

----------------------------------------------------------------------------
(* Claims about the agent and its buffer (SpecAgent) *)

\* C1: learn(), policy(m) and load_params(params) on the abstract baseAgent
\* fail with an error; none of them returns normally.
C1_BaseMethodsRaise ==
    (subj.cls = "base" /\ ret.op \in {"learn", "policy", "load_params"})
        => ret.kind = "raised"

\* C2: sample(args) succeeds iff every requested key is a key of the most
\* recent push, and then returns that push's values in the requested order;
\* otherwise it raises KeyError, whatever earlier pushes wrote.
C2_SampleReadsLatestPush ==
    ret.op = "sample" =>
        IF \A i \in 1..Len(ret.args) : ret.args[i] \in DOMAIN last_push
        THEN /\ ret.kind = "returned"
             /\ ret.vals = [i \in 1..Len(ret.args) |-> last_push[ret.args[i]]]
        ELSE /\ ret.kind = "raised"
             /\ ret.val = "KeyError"

\* C2 witness: after a push that holds 's' only, sample('t_type') raised.
C2_Witness ==
    /\ ret.op = "sample"
    /\ ret.kind = "raised"
    /\ ret.args = <<"t_type">>
    /\ DOMAIN last_push = {"s"}

\* C7: constructing RL with a raw vector whose length is not the declared
\* parameter count fails with an error.
C7_WrongLengthRaises ==
    (ret.op = "RL" /\ Len(ret.args) # Len(p_name)) => ret.kind = "raised"

\* C16: a policy call on RL changes nothing of the agent but the cached pi,
\* which is the softmax of beta * p_S * m of the belief it found, so that a
\* call repeating the modulation of the call before returns the same pi;
\* push and sample between two calls leave what policy reads unchanged.
C16_PolicyOnlySetsPi ==
    /\ [][(ret'.op = "policy" /\ subj.cls = "RL") =>
            /\ subj' = [subj EXCEPT !.pi = subj'.pi]
            /\ subj'.pi = <<RSub(RMul(subj.beta, RMul(subj.p_S[2], Rat(ret'.args[2]))),
                                 RMul(subj.beta, RMul(subj.p_S[1], Rat(ret'.args[1]))))>>
            /\ (ret.op = "policy" /\ ret.args = ret'.args) => subj'.pi = subj.pi]_vars
    /\ [][(ret'.op \in {"push", "sample"} /\ subj.cls = "RL") =>
            subj' = [subj EXCEPT !.mem = subj'.mem]]_vars

\* C16 witness: policy returned on an agent that has learnt, under a
\* modulation that is not uniform.
C16_Witness ==
    /\ ret.op = "policy" /\ ret.args = <<1, 2>>
    /\ subj.cls = "RL"
    /\ subj.o # "unset"
    /\ subj.mem # EmptyMem
    /\ subj.pi # Unset

\* C17: an RL agent's p_S is (1 - p1, p1), sums to 1, and p1 lies in [0, 1];
\* a learn call that returns moves p1 by alpha * (s - p1) for the buffered
\* s, records 'pos' when s - p1 > 0 (taken before the update) and 'neg'
\* otherwise, and changes nothing else; with alpha = 1/2, belief (1/2, 1/2)
\* and s = 1 the belief becomes (1/4, 3/4).
C17_DeltaRule ==
    /\ [](subj.cls = "RL" =>
            /\ subj.p_S = <<RSub(Rat(1), subj.p1), subj.p1>>
            /\ RAdd(subj.p_S[1], subj.p_S[2]) = Rat(1)
            /\ RLeq(Rat(0), subj.p1) /\ RLeq(subj.p1, Rat(1))
            /\ RPos(subj.alpha) /\ RPos(RSub(Rat(1), subj.alpha)))
    /\ [][(ret'.op = "learn" /\ ret'.kind = "returned" /\ subj.cls = "RL") =>
            LET delta == RSub(Rat(subj.mem["s"]), subj.p1)
            IN  /\ subj'.p1 = RAdd(subj.p1, RMul(subj.alpha, delta))
                /\ subj'.o = IF delta[1] > 0 THEN "pos" ELSE "neg"
                /\ subj' = [subj EXCEPT !.p1 = subj'.p1, !.p_S = subj'.p_S, !.o = subj'.o]
                /\ (subj.alpha = <<1, 2>> /\ subj.p_S = <<(<<1, 2>>), (<<1, 2>>)>>
                      /\ subj.mem["s"] = 1)
                     => subj'.p_S = <<(<<1, 4>>), (<<3, 4>>)>>]_vars

\* C17 witness: a learn with alpha = 1/2 and s = 0 returned on the belief
\* (1/4, 3/4) of the spec's example: belief (5/8, 3/8), a negative error.
C17_Witness ==
    /\ ret.op = "learn" /\ ret.kind = "returned"
    /\ subj.cls = "RL"
    /\ subj.alpha = <<1, 2>>
    /\ subj.mem["s"] = 0
    /\ subj.p_S = <<(<<5, 8>>), (<<3, 8>>)>>
    /\ subj.o = "neg"

\* C19: learn on RL raises KeyError, and leaves the agent as it was, iff one
\* of 's', 't_type', 'f_type' is not a key of the most recent push (none
\* since construction included); otherwise it returns.
C19_LearnRaisesOnMissingKey ==
    /\ []((ret.op = "learn" /\ subj.cls = "RL") =>
            IF {"s", "t_type", "f_type"} \subseteq DOMAIN last_push
            THEN ret.kind = "returned"
            ELSE ret.kind = "raised" /\ ret.val = "KeyError")
    /\ [][(ret'.op = "learn" /\ ret'.kind = "raised") => subj' = subj]_vars
    /\ [][(ret'.op = "learn" /\ subj.cls = "RL"
             /\ ~({"s", "t_type", "f_type"} \subseteq DOMAIN last_push))
            => (ret'.kind = "raised" /\ subj' = subj)]_vars

\* C19 witness: learn raised after a push that lacked f_type, on an agent
\* that had learnt before and keeps that belief.
C19_Witness ==
    /\ ret.op = "learn" /\ ret.kind = "raised"
    /\ subj.cls = "RL"
    /\ DOMAIN last_push = {"s", "t_type"}
    /\ subj.o # "unset"
    /\ subj.p1 # <<1, 2>>

----------------------------------------------------------------------------
(* Claims about the wrapper used from one thread (Spec) *)

Main == calls["main"]

AllGetters == \A i \in 1..Len(insights.keys) : insights.keys[i] \in Getters

\* C3: with a hooked name that has no getter, sim raises in its first trial
\* (AttributeError is raised there and nowhere else) and never completes.
C3_UnknownHookFailsInFirstTrial ==
    /\ (Main.op = "sim" /\ use_hook /\ ~AllGetters) =>
          /\ Main.pc # "done"
          /\ Main.b = 1
          /\ Main.pc \in {"trial", "raised"} => Main.t \in {0, 1}
    /\ Main.exc = "AttributeError" =>
          /\ Main.op = "sim" /\ use_hook /\ ~AllGetters
          /\ Main.b = 1 /\ Main.t = 1

\* C3 witness: sim raised AttributeError at the unknown name, whose log is
\* still empty, after the valid name before it got its first entry.
C3_Witness ==
    /\ Main.exc = "AttributeError"
    /\ insights.keys = <<"pS1", "bad">>
    /\ insights.log["bad"] = << >>
    /\ Len(insights.log["pS1"]) = 1

RECURSIVE RngAfter(_, _)
\* The random source after n draws.
RngAfter(r, n) == IF n = 0 THEN r ELSE RngAfter(RngNext(r), n - 1)

\* The trials of the blocks before block i.
RowsBefore(d, i) == TotalTrials(SubSeq(d, 1, i - 1))

RECURSIVE pS1_from(_, _, _, _, _)
\* get_pS1 after each trial of a block, from trial t on.
pS1_from(a, block, t, r, vals) ==
    IF t > Len(block) THEN vals
    ELSE LET g == sim_fn(block[t], a, r)
         IN  pS1_from(g.subj, block, t + 1, g.rng, Append(vals, get_pS1(g.subj)))

\* get_pS1 after each trial of block i of a sim(d, params, rng) call.
pS1_block(d, params, seed, i) ==
    pS1_from(new_RL(params), d[i], 1, RngAfter(seed, RowsBefore(d, i)), << >>)

\* The trials a sim frame has completed, and the values a hook on pS1 saw.
Processed(f) ==
    IF f.pc = "trial" THEN RowsBefore(data, f.b) + f.t - 1 ELSE RowsBefore(data, f.b)

pS1_seen(f) ==
    LET whole == Concat([i \in 1..(f.b - 1) |-> pS1_block(data, f.params, f.seed, i)])
    IN  IF f.pc = "trial"
        THEN whole \o SubSeq(pS1_block(data, f.params, f.seed, f.b), 1, f.t - 1)
        ELSE whole

SimTrialStep == Main.op = "sim" /\ Main.pc = "trial" /\ calls' # calls

\* C4: with valid hooks, every simulated trial appends exactly one value at
\* the end of each hooked log and nothing else touches a log between two
\* registrations; the entries a sim run added are its trials' values in
\* trial order, blocks in iteration order.
C4_OneEntryPerTrialInOrder ==
    /\ [][calls' # calls =>
            /\ insights'.keys = insights.keys
            /\ \A k \in DOMAIN insights.log :
                  IF SimTrialStep /\ use_hook /\ AllGetters
                  THEN insights'.log[k] =
                          Append(insights.log[k], get_pS1(calls'["main"].subj))
                  ELSE IF SimTrialStep /\ use_hook
                  THEN \/ insights'.log[k] = insights.log[k]
                       \/ insights'.log[k] =
                             Append(insights.log[k], get_pS1(calls'["main"].subj))
                  ELSE insights'.log[k] = insights.log[k]]_vars
    /\ []((Main.op = "sim" /\ Main.pc \in {"block", "trial", "done"}
             /\ use_hook /\ AllGetters) =>
            \A k \in DOMAIN insights.log :
                LET n == Processed(Main)
                    l == insights.log[k]
                IN  /\ Len(l) >= n
                    /\ SubSeq(l, Len(l) - n + 1, Len(l)) = pS1_seen(Main))

\* C4 witness: sim of one 3-trial block finished with 3 entries for pS1.
C4_Witness ==
    /\ Main.op = "sim" /\ Main.pc = "done"
    /\ use_hook
    /\ Len(data) = 1 /\ Len(data[1]) = 3
    /\ insights.keys = <<"pS1">>
    /\ Len(insights.log["pS1"]) = 3

ResultOf(f) ==
    IF f.op = "loss" THEN loss_fn(f.params, data)
    ELSE Concat([i \in 1..Len(data) |-> eval_block(data[i], f.params)])

\* C6: no step of loss_fn / loglike / eval / eval_block changes use_hook or
\* a hook log, and their results are those of the hook-free definitions.
C6_HooksDoNotTouchFitEval ==
    /\ [][(calls' # calls /\ Main.op \in {"none", "loss", "eval"}
             /\ calls'["main"].op \in {"none", "loss", "eval"})
            => UNCHANGED <<use_hook, insights>>]_vars
    /\ []((Main.op \in {"loss", "eval"} /\ Main.pc = "done")
            => Main.res = ResultOf(Main))

\* C6 witness: eval finished while hooks are on and a log holds entries.
C6_Witness ==
    /\ Main.op = "eval" /\ Main.pc = "done"
    /\ use_hook
    /\ \E k \in DOMAIN insights.log : insights.log[k] # << >>

\* The result of block i alone: what the operation computes for the block
\* as the only block of the dataset, with the arguments of the call.
AloneResult(f, i) ==
    IF f.op = "loss" THEN loglike(f.params, data[i])
    ELSE IF f.op = "eval" THEN eval_block(data[i], f.params)
    ELSE sim_block(data[i], f.params, f.seed)

C9_FreshAgentPerBlock ==
    (Main.pc = "trial" /\ Main.t = 1) =>
        /\ Main.subj.cls = "RL"
        /\ Main.subj.p1 = <<1, 2>>
        /\ Main.subj.p_S = <<(<<1, 2>>), (<<1, 2>>)>>
        /\ Main.subj.o = "unset"
        /\ Main.subj.pi = Unset
        /\ Main.subj.mem = EmptyMem
        /\ Main.subj.alpha = sigmoid(Main.params[1])
        /\ Main.subj.beta = clip_exp(Main.params[2])

\* C9 witness: the first trial of a second block, after a first block whose
\* trials moved the belief of that block's agent.
C9_Witness ==
    /\ Main.pc = "trial" /\ Main.t = 1 /\ Main.b = 2
    /\ Main.out # << >>
    /\ Main.subj.p1 = <<1, 2>>

----------------------------------------------------------------------------
(* Claims about concurrent loss evaluations (SpecPar) *)

\* C10: interleaved loss_fn calls on one wrapper each return the value the
\* call returns when run alone, no step of a call changes another call's
\* frame, and no step writes a field of the wrapper.
C10_ConcurrentLossIsolated ==
    [][/\ \A w \in Workers :
             (calls[w].pc # "done" /\ calls'[w].pc = "done")
                 => calls'[w].res = loss_fn(calls'[w].params, data')
       /\ UNCHANGED <<use_hook, insights>>
       /\ \A w, v \in Workers :
             (w # v /\ calls'[w] # calls[w]) => calls'[v] = calls[v]]_vars

\* C10 witness: one call returned its loss while the other, with other
\* parameters, was inside a block whose agent had already learnt.
C10_Witness ==
    /\ calls["pool"].pc = "done"
    /\ calls["main"].pc = "trial" /\ calls["main"].t > 1
    /\ calls["main"].params # calls["pool"].params
    /\ Len(data) = 2

----------------------------------------------------------------------------
(* Claims about the operations on DataFrames (SpecTable) *)

\* The values sim generates for block i of the caller's dataset: the rows of
\* sim_block on the block's trial records, from the state the random source
\* has after the draws of the blocks before.
Generated(i) ==
    sim_block(Blocks(frames)[i], result.params,
              RngAfter(result.seed, RowsBefore(Blocks(frames), i)))

\* C11: in every block result of sim no column label occurs twice, and the
\* cells under the name of an environment-generated variable hold the
\* simulated values, whatever the input held under that name; the input's
\* other columns are kept.
C11_SimDropsCollidingColumns ==
    result.op = "sim" =>
        \A i \in 1..Len(result.out) :
            LET df == result.out[i]
            IN  /\ \A j, k \in 1..Len(df.columns) : df.columns[j] = df.columns[k] => j = k
                /\ \A n \in 1..Len(env_voi), j \in 1..Len(df.columns), t \in 1..Len(df.rows) :
                      df.columns[j] = env_voi[n] =>
                          df.rows[t][j] = Rat(Generated(i)[t].voi[n])
                /\ \A j \in 1..Len(frames[i].columns) :
                      (\A n \in 1..Len(env_voi) : frames[i].columns[j] # env_voi[n]) =>
                          /\ HasCol(df, frames[i].columns[j])
                          /\ \A t \in 1..Len(df.rows) :
                                Cell(df, t, frames[i].columns[j]) = frames[i].rows[t][j]

\* C11 witness: sim returned for two blocks that carry an observed column s,
\* and a simulated s differs from the observed one of its trial.
C11_Witness ==
    /\ result.op = "sim" /\ result.kind = "returned"
    /\ Len(frames) = 2
    /\ \A i \in 1..2 : HasCol(frames[i], "s") /\ HasCol(result.out[i], "s")
    /\ \E i \in 1..2 : \E t \in 1..Len(frames[i].rows) :
          Cell(result.out[i], t, "s") # Cell(frames[i], t, "s")

\* C12: in every block result of eval, each trial's row holds the trial's
\* log-likelihood contribution under ll and a value under the name of every
\* quantity the agent class declares in voi.
C12_EvalRecordsLlAndVoi ==
    (result.op = "eval" /\ result.kind = "returned") =>
        \A i \in 1..Len(result.out) :
            LET df == result.out[i]
            IN  /\ HasCol(df, "ll")
                /\ \A t \in 1..Len(df.rows) :
                      Cell(df, t, "ll") = eval_block(Blocks(frames)[i], result.params)[t].ll
                /\ \A n \in 1..Len(agent_voi) :
                      /\ HasCol(df, agent_voi[n])
                      /\ \A t \in 1..Len(df.rows) : Cell(df, t, agent_voi[n]) # NaN

\* The calls of env.eval_fn that eval owes a dataset: every trial of every
\* block once, blocks in iteration order, trials in sequence order.
OwedCalls(d) ==
    Concat([i \in 1..Len(d) |->
               [t \in 1..Len(d[i].rows) |-> [block |-> i, label |-> d[i].index[t]]]])

\* C13: every block result of eval has the block's rows, one per input
\* trial and in their order, and none of its added columns is blank; a
\* returned eval has one result per block, returns their rows in iteration
\* order under the index 0..total-1, and has called env.eval_fn once per
\* trial in order.
C13_EvalShape ==
    result.op = "eval" =>
        /\ \A i \in 1..Len(result.out) :
              LET df == result.out[i]
                  n  == Len(frames[i].columns)
              IN  /\ Len(df.rows) = Len(frames[i].rows)
                  /\ df.index = [t \in 1..Len(frames[i].rows) |-> t - 1]
                  /\ \A t \in 1..Len(df.rows) : SubSeq(df.rows[t], 1, n) = frames[i].rows[t]
                  /\ \A j \in (n + 1)..Len(df.columns) :
                        \E t \in 1..Len(df.rows) : df.rows[t][j] # NaN
        /\ result.kind = "returned" =>
              /\ Len(result.out) = Len(frames)
              /\ Len(result.res.rows) = TotalTrials(Blocks(frames))
              /\ result.res.index = [t \in 1..TotalTrials(Blocks(frames)) |-> t - 1]
              /\ result.res.rows = Concat([i \in 1..Len(frames) |-> result.out[i].rows])
              /\ result.trace = OwedCalls(frames)

\* C13 witness: eval returned for blocks of 1 and 3 trials with an agent
\* class that declares pS1, whose column was blank in both blocks.
C13_Witness ==
    /\ result.op = "eval" /\ result.kind = "returned"
    /\ agent_voi = <<"pS1">>
    /\ Len(frames) = 2
    /\ Len(frames[1].rows) = 1 /\ Len(frames[2].rows) = 3
    /\ Len(result.res.rows) = 4

\* The aligned (prior, parameter) pairs of a loss_fn call and the
\* log-density of each.
Pairs == 1..Min(Len(result.p_priors.pris), Len(result.params))
LogDensity(i) == result.p_priors.pris[i][result.params[i]]

RECURSIVE SumOver(_, _)
\* The sum of the rationals f[i] over a finite set I of indices.
SumOver(f, I) ==
    IF I = {} THEN Rat(0)
    ELSE LET i == CHOOSE j \in I : TRUE
         IN  RAdd(f[i], SumOver(f, I \ {i}))

\* The blocks' log likelihoods summed, by the functions on trial records.
TotalLoglike == SumRat([i \in 1..Len(frames) |-> loglike(result.params, Blocks(frames)[i])])

\* A block that loglike cannot score.
Unscorable(i) ==
    \/ loc0_raises(frames[i])
    \/ load_params_raises(result.params)
    \/ ~HasCol(frames[i], "s")

\* C14: a returned loss_fn is minus the summed block log likelihoods minus
\* the summed prior terms, a term being the log-density, or -max_ for a zero
\* density; without priors the prior term is 0 and for one block the loss is
\* minus its loglike; loss_fn raises only where a block cannot be scored,
\* never because of a prior.
C14_LossIsLoglikePlusFlooredPrior ==
    result.op = "loss_fn" =>
        /\ result.kind = "raised" <=> \E i \in 1..Len(frames) : Unscorable(i)
        /\ result.kind = "returned" =>
              /\ result.res.big =
                    Cardinality({i \in Pairs : LogDensity(i)[2] = 0})
              /\ result.res.fin =
                    RSub(RNeg(TotalLoglike),
                         SumOver([i \in Pairs |-> LogDensity(i)],
                                 {i \in Pairs : LogDensity(i)[2] # 0}))
              /\ ~result.p_priors.given => result.res = XNum(RNeg(TotalLoglike))
              /\ (~result.p_priors.given /\ Len(frames) = 1) =>
                    result.res.fin = RNeg(loglike(result.params, Blocks(frames)[1]))

\* C14 witness: loss_fn returned for two priors, the first of zero density
\* at its parameter, on a dataset with a learning block.
C14_Witness ==
    /\ result.op = "loss_fn" /\ result.kind = "returned"
    /\ Len(result.p_priors.pris) = 2 /\ Len(result.params) = 2
    /\ LogDensity(1)[2] = 0 /\ LogDensity(2)[2] # 0
    /\ result.res.big = 1
    /\ \E i \in 1..Len(frames) : Len(frames[i].rows) > 1

\* A loss_fn call whose priors all have a positive density at their
\* parameter; and one whose parameters are at the modes of their priors.
PositiveDensity ==
    /\ result.op = "loss_fn" /\ result.kind = "returned"
    /\ result.p_priors.given
    /\ \A i \in Pairs : LogDensity(i)[2] # 0

AtModes ==
    \A i \in Pairs : \A r \in RawVals :
        result.p_priors.pris[i][r][2] = 0 \/ RLeq(result.p_priors.pris[i][r], LogDensity(i))

\* C15 as stated: with priors of positive density at parameters at their
\* modes, the loss is never smaller than the loss without the prior term.
C15_PriorNeverLowersLoss ==
    (PositiveDensity /\ AtModes) => XLeq(XNum(RNeg(TotalLoglike)), result.res)

\* C15 amended: with priors of positive density at the parameters, the loss
\* is the loss without the prior term minus the summed log-densities; it is
\* not smaller when every log-density is at most 0 and it is smaller when
\* there is a pair and every log-density is above 0.
C15_PriorShiftsLossByLogDensity ==
    PositiveDensity =>
        /\ result.res =
              XNum(RSub(RNeg(TotalLoglike), SumOver([i \in Pairs |-> LogDensity(i)], Pairs)))
        /\ (\A i \in Pairs : RLeq(LogDensity(i), Rat(0)))
              => XLeq(XNum(RNeg(TotalLoglike)), result.res)
        /\ (Pairs # {} /\ \A i \in Pairs : RPos(LogDensity(i)))
              => ~XLeq(XNum(RNeg(TotalLoglike)), result.res)

\* C15 witness: a call with two priors, the parameters at their modes, one
\* density above 1 and one below.
C15_Witness ==
    /\ PositiveDensity /\ AtModes
    /\ Pairs = {1, 2}
    /\ RPos(LogDensity(1)) /\ ~RPos(LogDensity(2))

\* get_pS1 of the agent of block i after each of its trials, and before each.
AfterUpdate(i) == pS1_block(Blocks(frames), result.params, result.seed, i)
BeforeUpdate(i) ==
    [t \in 1..Len(frames[i].rows) |->
        IF t = 1 THEN get_pS1(new_RL(result.params)) ELSE AfterUpdate(i)[t - 1]]

\* The column of a declared quantity in block result i, and the entries the
\* call appended to the quantity's hook log.
Recorded(i, v) == [t \in 1..Len(result.out[i].rows) |-> Cell(result.out[i], t, v)]
Hooked(v) == insights.log[v]

SimOfRL ==
    /\ result.op = "sim" /\ result.kind = "returned"
    /\ agent_voi = <<"pS1">>

\* C18 as stated: the quantities sim records for a trial, in the voi columns
\* and in the hook logs, are those of the agent before the trial's update,
\* and the two records agree.
C18_IntrospectionBeforeUpdate ==
    SimOfRL =>
        /\ \A i \in 1..Len(result.out) : Recorded(i, "pS1") = BeforeUpdate(i)
        /\ use_hook =>
              Hooked("pS1") = Concat([i \in 1..Len(result.out) |-> BeforeUpdate(i)])

\* C18 amended: the quantities sim records for a trial are read after the
\* trial's generative call returned, from the agent as the trial's update
\* left it, and the voi columns and the hook logs hold the same values.
C18_IntrospectionAfterGenerativeCall ==
    SimOfRL =>
        /\ \A i \in 1..Len(result.out) : Recorded(i, "pS1") = AfterUpdate(i)
        /\ use_hook =>
              /\ Hooked("pS1") = Concat([i \in 1..Len(result.out) |-> AfterUpdate(i)])
              /\ Hooked("pS1") = Concat([i \in 1..Len(result.out) |-> Recorded(i, "pS1")])

\* C18 witness: a hooked sim of a block of three trials returned; the first
\* recorded pS1 is no longer the initial belief.
C18_Witness ==
    /\ SimOfRL /\ use_hook
    /\ Len(frames) = 1 /\ Len(frames[1].rows) = 3
    /\ Len(Hooked("pS1")) = 3
    /\ Recorded(1, "pS1")[1] # <<1, 2>>

\* C20: no eval or sim call changes the caller's dataset.
C20_CallerDatasetUnchanged ==
    [][result'.op \in {"eval", "sim"} => frames' = frames]_vars

\* C20 witness: sim returned simulated s values that differ from the observed
\* ones, and the caller's blocks still hold their observed s column and rt.
C20_Witness ==
    /\ result.op = "sim" /\ result.kind = "returned"
    /\ Len(frames) = 2
    /\ \A i \in 1..2 : frames[i].columns = <<"block_type", "rt", "s">>
    /\ \E t \in 1..Len(frames[1].rows) :
          Cell(result.out[1], t, "s") # Cell(frames[1], t, "s")

====
